---- MODULE Spec2Model ----
(***************************************************************************)
(* Model of the two transition kernels of mcx/inference/kernels.py:        *)
(* hmc_kernel (Hamiltonian Monte Carlo) and rwm_kernel (Random Walk        *)
(* Metropolis).                                                            *)
(*                                                                         *)
(* Floating point values are modelled as records [k, v]: k is one of       *)
(* "fin", "pinf", "ninf", "nan" and v is the value of a finite number.     *)
(* Log-space quantities (log_prob, energy, delta_energy, log_uniform) are  *)
(* counted in whole nats; probabilities (uniform draws, p_accept) are      *)
(* counted in permille, so that 1.0 is Fin(1000).                          *)
(***************************************************************************)
EXTENDS Integers, FiniteSets, Sequences, TLC

VARIABLES chain, target, integrator, hmc_state, hmc_info, hmc_last, rwm_state, rwm_last

vars == <<chain, target, integrator, hmc_state, hmc_info, hmc_last, rwm_state, rwm_last>>

(***************************************************************************)
(* Bounds of the model.                                                    *)
(***************************************************************************)
\* the quadratic target has support -SupportRadius..SupportRadius
SupportRadius == 1
\* momentum_generator draws from -MaxMomentum..MaxMomentum
MaxMomentum == 1
\* the RWM proposal draws a move from -MaxMove..MaxMove
MaxMove == 1

\* positions the model lets a chain visit (one step outside the support)
MaxPos == SupportRadius + 1

(***************************************************************************)
(* IEEE-754 values and the jax.numpy operations the kernels apply.         *)
(***************************************************************************)
Fin(n) == [k |-> "fin", v |-> n]
PInf == [k |-> "pinf", v |-> 0]
NInf == [k |-> "ninf", v |-> 0]
NaN == [k |-> "nan", v |-> 0]

\* 1.0 as a probability (permille)
One == Fin(1000)

IsNan(a) == a.k = "nan"

IsFin(a) == a.k = "fin"

\* a + b
FAdd(a, b) ==
    IF IsNan(a) \/ IsNan(b) THEN NaN
    ELSE IF a.k = "pinf" THEN (IF b.k = "ninf" THEN NaN ELSE PInf)
    ELSE IF a.k = "ninf" THEN (IF b.k = "pinf" THEN NaN ELSE NInf)
    ELSE IF b.k = "fin" THEN Fin(a.v + b.v)
    ELSE b

\* -1.0 * a
FNeg(a) ==
    CASE a.k = "nan" -> NaN
      [] a.k = "pinf" -> NInf
      [] a.k = "ninf" -> PInf
      [] OTHER -> Fin(0 - a.v)

\* a - b
FSub(a, b) == FAdd(a, FNeg(b))

\* a < b : every comparison with NaN is false
FLt(a, b) ==
    IF IsNan(a) \/ IsNan(b) THEN FALSE
    ELSE IF a.k = "pinf" \/ b.k = "ninf" THEN FALSE
    ELSE IF a.k = "ninf" \/ b.k = "pinf" THEN TRUE
    ELSE a.v < b.v

\* a > b
FGt(a, b) == FLt(b, a)

\* np.abs
FAbs(a) ==
    CASE a.k = "nan" -> NaN
      [] a.k \in {"pinf", "ninf"} -> PInf
      [] OTHER -> Fin(IF a.v < 0 THEN 0 - a.v ELSE a.v)

\* np.where(c, a, b)
Where(c, a, b) == IF c THEN a ELSE b

\* 1000 * e^(-n) rounded up, n = 1..7; an integer u is below 1000*e^(-n) iff
\* it is below the rounded value
ExpTableNeg == <<368, 136, 50, 19, 7, 3, 1>>

\* 1000 * e^n rounded up, n = 1..7
ExpTablePos == <<2719, 7390, 20086, 54599, 148414, 403429, 1096634>>

\* np.exp of a log-space value, as a permille value.  float32: the result
\* overflows to +inf from 89 on and underflows to 0 from -104 on; between
\* the tables and those limits the result is a finite value above 1 (a lower
\* bound is kept) or a positive value below 0.001 (kept as 1 permille, so
\* that it stays above a uniform draw of 0).
Exp(a) ==
    CASE a.k = "nan" -> NaN
      [] a.k = "pinf" -> PInf
      [] a.k = "ninf" -> Fin(0)
      [] OTHER ->
           IF a.v = 0 THEN One
           ELSE IF a.v >= 89 THEN PInf
           ELSE IF a.v > 7 THEN Fin(1096634 * (a.v - 6))
           ELSE IF a.v > 0 THEN Fin(ExpTablePos[a.v])
           ELSE IF a.v >= -7 THEN Fin(ExpTableNeg[0 - a.v])
           ELSE IF a.v > -104 THEN Fin(1)
           ELSE Fin(0)

\* np.log of a uniform draw u in [0, 1) given in permille, rounded down to
\* whole nats: for an integer d, floor(log u) < d iff log u < d
Log(u) ==
    IF IsNan(u) THEN NaN
    ELSE IF u.v = 0 THEN NInf
    ELSE Fin(0 - (CHOOSE n \in 1..7 :
                    /\ ExpTableNeg[n] <= u.v
                    /\ \A j \in 1..(n - 1) : ExpTableNeg[j] > u.v))

\* np.clip(x, a_max=m) = minimum(x, m); NaN propagates
Clip(x, m) == IF IsNan(x) THEN NaN ELSE IF FLt(m, x) THEN m ELSE x

(***************************************************************************)
(* The collaborators the kernels are built from.  They are supplied by     *)
(* the caller; the model fixes small families of them.                     *)
(***************************************************************************)
Targets == {"flat", "quad"}

Integrators == {"identity", "blackbox"}

\* the target log-density: "flat" is 0 everywhere, "quad" is -1200 x^2 on its
\* support and -inf outside of it
logpdf(t, x) ==
    IF IsNan(x) THEN NaN
    ELSE IF ~IsFin(x) THEN NInf
    ELSE IF t = "flat" THEN Fin(0)
    ELSE IF x.v > SupportRadius \/ x.v < 0 - SupportRadius THEN NInf
    ELSE Fin(0 - 1200 * x.v * x.v)

\* the gradient of the target log-density
logpdf_grad(t, x) ==
    IF IsNan(x) THEN NaN
    ELSE IF ~IsFin(x) THEN Fin(0)
    ELSE IF t = "flat" THEN Fin(0)
    ELSE IF x.v > SupportRadius \/ x.v < 0 - SupportRadius THEN Fin(0)
    ELSE Fin(0 - 2400 * x.v)

\* positions a chain or an integrator can be at
Positions == {Fin(x) : x \in (0 - MaxPos)..MaxPos}

\* momentum_generator(key_momentum): the values it can draw
Momenta == {Fin(p) : p \in (0 - MaxMomentum)..MaxMomentum}

\* kinetic_energy(momentum): p^2 / (2 m) with m = 1/2
kinetic_energy(p) ==
    CASE p.k = "nan" -> NaN
      [] p.k \in {"pinf", "ninf"} -> PInf
      [] OTHER -> Fin(p.v * p.v)

\* jax.random.uniform(key): the values in [0, 1) it can draw, in permille
Uniforms == {Fin(0), Fin(300), Fin(999)}

\* proposal(key_move): the moves it can draw
Moves == {Fin(m) : m \in (0 - MaxMove)..MaxMove}

\* integrator(key_integrator, position, momentum, log_prob_grad, log_prob):
\* the quadruples it can return.  "identity" returns its input; "blackbox"
\* is any integrator that returns a self-consistent quadruple, blow-ups to
\* NaN included.
IntegratorOutputs(kind, t, position, momentum, log_prob_grad, log_prob) ==
    IF kind = "identity"
    THEN {[position |-> position, momentum |-> momentum,
           log_prob |-> log_prob, log_prob_grad |-> log_prob_grad]}
    ELSE {[position |-> q, momentum |-> p,
           log_prob |-> logpdf(t, q), log_prob_grad |-> logpdf_grad(t, q)] :
              q \in Positions \cup {NaN}, p \in Momenta \cup {NaN}}

(***************************************************************************)
(* hmc_kernel                                                              *)
(***************************************************************************)
HMCState(position, log_prob, log_prob_grad, energy) ==
    [position |-> position, log_prob |-> log_prob,
     log_prob_grad |-> log_prob_grad, energy |-> energy]

HMCInfo(proposed_state, acceptance_probability, is_accepted, is_divergent) ==
    [proposed_state |-> proposed_state,
     acceptance_probability |-> acceptance_probability,
     is_accepted |-> is_accepted, is_divergent |-> is_divergent]

divergence_threshold == Fin(1000)

FlippedMomentum(momentum) == FNeg(momentum)

NewEnergy(log_prob, flipped_momentum) ==
    FAdd(log_prob, kinetic_energy(flipped_momentum))

\* the proposed state carries the energy unpacked from the input state
NewState(position, log_prob, log_prob_grad, energy, new_energy) ==
    HMCState(position, log_prob, log_prob_grad, energy)

DeltaEnergy(energy, new_energy) == FSub(energy, new_energy)

\* variant: the NaN is left in delta_energy
NanToNegInfKeepNan(delta_energy) == delta_energy

NanToNegInf(delta_energy) == Where(IsNan(delta_energy), NInf, delta_energy)

\* variant: the absolute value is not taken
IsDivergentOneSided(delta_energy) == FGt(delta_energy, divergence_threshold)

IsDivergent(delta_energy) == FGt(FAbs(delta_energy), divergence_threshold)

\* variant: exp is not clipped
PAcceptUnclipped(delta_energy) == Exp(delta_energy)

PAccept(delta_energy) == Clip(Exp(delta_energy), One)

\* jax.random.bernoulli(key, p) is uniform(key) < p
Bernoulli(u, p) == FLt(u, p)

AcceptState(new_state, p_accept, is_divergent) ==
    [state |-> new_state, info |-> HMCInfo(new_state, p_accept, TRUE, is_divergent)]

\* variant: the rejected branch returns the proposed state
RejectStateProposed(state, new_state, p_accept, is_divergent) ==
    [state |-> new_state, info |-> HMCInfo(new_state, p_accept, FALSE, is_divergent)]

RejectState(state, new_state, p_accept, is_divergent) ==
    [state |-> state, info |-> HMCInfo(new_state, p_accept, FALSE, is_divergent)]

\* one call of kernel(rng_key, state): momentum is the draw of
\* momentum_generator, out the integrator's return value and u the uniform
\* draw behind the Bernoulli draw.  np.where on the two (state, info) pairs
\* is the select of one whole pair by the scalar do_accept.  The locals the claims are about are returned with
\* the result.
kernel(state, momentum, out, u) ==
    LET energy == state.energy
        flipped_momentum == FlippedMomentum(out.momentum)
        new_energy == NewEnergy(out.log_prob, flipped_momentum)
        new_state == NewState(out.position, out.log_prob, out.log_prob_grad,
                              energy, new_energy)
        raw_delta == DeltaEnergy(energy, new_energy)
        delta_energy == NanToNegInf(raw_delta)
        is_divergent == IsDivergent(delta_energy)
        p_accept == PAccept(delta_energy)
        do_accept == Bernoulli(u, p_accept)
        accept_state == AcceptState(new_state, p_accept, is_divergent)
        reject_state == RejectState(state, new_state, p_accept, is_divergent)
        ret == Where(do_accept, accept_state, reject_state)
    IN  [state |-> ret.state, info |-> ret.info,
         last |-> [valid |-> TRUE, input |-> state,
                   out |-> [position |-> out.position, log_prob |-> out.log_prob,
                            log_prob_grad |-> out.log_prob_grad],
                   new_energy |-> new_energy,
                   raw_delta |-> raw_delta, delta_energy |-> delta_energy,
                   p_accept |-> p_accept, do_accept |-> do_accept]]

(***************************************************************************)
(* rwm_kernel                                                              *)
(***************************************************************************)
RWMState(position, log_prob) == [position |-> position, log_prob |-> log_prob]

\* variant: <= in place of <
RWMDoAcceptOrEqual(log_uniform, proposal_log_prob, log_prob) ==
    ~IsNan(log_uniform) /\ ~IsNan(FSub(proposal_log_prob, log_prob))
    /\ ~FLt(FSub(proposal_log_prob, log_prob), log_uniform)

RWMDoAccept(log_uniform, proposal_log_prob, log_prob) ==
    FLt(log_uniform, FSub(proposal_log_prob, log_prob))

\* variant: the branches of the select are swapped
RWMPositionSwapped(do_accept, proposal, position) == Where(do_accept, position, proposal)

RWMPosition(do_accept, proposal, position) == Where(do_accept, proposal, position)

\* variant: the candidate's log_prob is kept whatever the decision
RWMLogProbAlwaysProposal(do_accept, proposal_log_prob, log_prob) == proposal_log_prob

RWMLogProb(do_accept, proposal_log_prob, log_prob) ==
    Where(do_accept, proposal_log_prob, log_prob)

\* one call of rwm_kernel(rng_key, logpdf, proposal, state): move_proposal is
\* the draw of proposal(key_move), u the uniform draw
rwm_kernel(t, state, move_proposal, u) ==
    LET position == state.position
        log_prob == state.log_prob
        proposal == FAdd(position, move_proposal)
        proposal_log_prob == logpdf(t, proposal)
        log_uniform == Log(u)
        do_accept == RWMDoAccept(log_uniform, proposal_log_prob, log_prob)
    IN  [state |-> RWMState(RWMPosition(do_accept, proposal, position),
                            RWMLogProb(do_accept, proposal_log_prob, log_prob)),
         last |-> [valid |-> TRUE, input |-> state,
                   move_proposal |-> move_proposal, proposal |-> proposal,
                   proposal_log_prob |-> proposal_log_prob,
                   log_uniform |-> log_uniform, do_accept |-> do_accept]]

(***************************************************************************)
(* The chain: a driver holds one chain state and calls one kernel on it.   *)
(***************************************************************************)
\* a consistent HMC state at position x: log_prob and gradient of the target
\* at x, energy as the kernel computes it for x and a momentum p0
HMCInitState(t, x, p0) ==
    HMCState(x, logpdf(t, x), logpdf_grad(t, x),
             FAdd(logpdf(t, x), kinetic_energy(p0)))

RWMInitState(t, x) == RWMState(x, logpdf(t, x))

NoHMCInfo == HMCInfo(HMCInitState("flat", Fin(0), Fin(0)), Fin(0), FALSE, FALSE)

NoHMCLast ==
    [valid |-> FALSE, input |-> HMCInitState("flat", Fin(0), Fin(0)),
     out |-> [position |-> Fin(0), log_prob |-> Fin(0), log_prob_grad |-> Fin(0)],
     new_energy |-> Fin(0), raw_delta |-> Fin(0), delta_energy |-> Fin(0),
     p_accept |-> Fin(0), do_accept |-> FALSE]

NoRWMLast ==
    [valid |-> FALSE, input |-> RWMInitState("flat", Fin(0)),
     move_proposal |-> Fin(0), proposal |-> Fin(0), proposal_log_prob |-> Fin(0),
     log_uniform |-> Fin(0), do_accept |-> FALSE]

InSupport(t, x) == IsFin(logpdf(t, x))

Init ==
    /\ chain \in {"hmc", "rwm"}
    /\ target \in Targets
    /\ hmc_info = NoHMCInfo
    /\ hmc_last = NoHMCLast
    /\ rwm_last = NoRWMLast
    /\ IF chain = "hmc"
       THEN /\ integrator \in Integrators
            /\ \E x \in Positions, p0 \in Momenta :
                  /\ InSupport(target, x)
                  /\ hmc_state = HMCInitState(target, x, p0)
            /\ rwm_state = RWMInitState(target, Fin(0))
       ELSE /\ integrator = "identity"
            /\ hmc_state = HMCInitState(target, Fin(0), Fin(0))
            /\ rwm_state \in {RWMInitState(target, x) : x \in Positions}

HMCStep ==
    /\ chain = "hmc"
    /\ \E momentum \in Momenta, u \in Uniforms :
         \E out \in IntegratorOutputs(integrator, target, hmc_state.position, momentum,
                                      hmc_state.log_prob_grad, hmc_state.log_prob) :
            LET r == kernel(hmc_state, momentum, out, u)
            IN  /\ hmc_state' = r.state
                /\ hmc_info' = r.info
                /\ hmc_last' = r.last
    /\ UNCHANGED <<chain, target, integrator, rwm_state, rwm_last>>

RWMStep ==
    /\ chain = "rwm"
    /\ \E move_proposal \in Moves, u \in Uniforms :
         /\ FAdd(rwm_state.position, move_proposal) \in Positions
         /\ LET r == rwm_kernel(target, rwm_state, move_proposal, u)
            IN  /\ rwm_state' = r.state
                /\ rwm_last' = r.last
    /\ UNCHANGED <<chain, target, integrator, hmc_state, hmc_info, hmc_last>>

Next == HMCStep \/ RWMStep

Spec == Init /\ [][Next]_vars

(***************************************************************************)
(* Properties of hmc_kernel                                                *)
(***************************************************************************)

\* C1: the energy of the state the HMC kernel returns is the energy of that
\* state's position: new_energy (new log_prob + kinetic energy of the flipped
\* momentum) after an accepted step, the input state's energy after a
\* rejected one.
C1_EnergyMatchesPosition ==
    hmc_last.valid =>
        hmc_state.energy = IF hmc_info.is_accepted
                           THEN hmc_last.new_energy
                           ELSE hmc_last.input.energy

\* C2: with the identity integrator on the flat target every step has
\* delta_energy = 0 and p_accept = 1, is accepted and is not divergent.
C2_IdentityFlatAlwaysAccepts ==
    (hmc_last.valid /\ integrator = "identity" /\ target = "flat") =>
        /\ hmc_last.raw_delta = Fin(0)
        /\ hmc_last.delta_energy = Fin(0)
        /\ hmc_info.acceptance_probability = One
        /\ hmc_info.is_accepted
        /\ ~hmc_info.is_divergent

\* C3: a NaN delta_energy is treated as -infinity: the acceptance
\* probability is exactly 0, the step is rejected, the returned state is the
\* input state, and neither the acceptance probability nor the returned
\* state's position or log_prob is NaN.
C3_NanDeltaRejects ==
    /\ ~IsNan(hmc_state.position)
    /\ ~IsNan(hmc_state.log_prob)
    /\ ~IsNan(hmc_info.acceptance_probability)
    /\ (hmc_last.valid /\ IsNan(hmc_last.raw_delta)) =>
          /\ hmc_last.delta_energy = NInf
          /\ hmc_info.acceptance_probability = Fin(0)
          /\ ~hmc_info.is_accepted
          /\ hmc_state = hmc_last.input

\* a step whose integrator blew up to NaN was taken with every uniform draw
C3_Witness ==
    /\ hmc_last.valid
    /\ IsNan(hmc_last.raw_delta)
    /\ IsNan(hmc_info.proposed_state.position)
    /\ IsNan(hmc_info.proposed_state.log_prob)

\* C4: a rejected step leaves the chain state unchanged: all four fields of
\* the HMC state, position and log_prob of the RWM state.
C4_RejectKeepsState ==
    /\ (hmc_last.valid /\ ~hmc_info.is_accepted) =>
          /\ hmc_state.position = hmc_last.input.position
          /\ hmc_state.log_prob = hmc_last.input.log_prob
          /\ hmc_state.log_prob_grad = hmc_last.input.log_prob_grad
          /\ hmc_state.energy = hmc_last.input.energy
    /\ (rwm_last.valid /\ ~rwm_last.do_accept) =>
          /\ rwm_state.position = rwm_last.input.position
          /\ rwm_state.log_prob = rwm_last.input.log_prob

\* a rejected HMC step whose proposal was somewhere else
C4_Witness ==
    /\ hmc_last.valid
    /\ ~hmc_info.is_accepted
    /\ IsFin(hmc_info.proposed_state.position)
    /\ hmc_info.proposed_state.position # hmc_last.input.position
    /\ hmc_info.proposed_state.log_prob # hmc_last.input.log_prob

\* C5: is_divergent is true exactly when |delta_energy| > 1000, on accepted
\* and on rejected steps alike; a step whose delta_energy is above the
\* threshold is accepted and flagged.
C5_DivergenceFlag ==
    hmc_last.valid =>
        LET d == hmc_last.delta_energy
            above == d.k = "pinf" \/ (d.k = "fin" /\ d.v > 1000)
            below == d.k = "ninf" \/ (d.k = "fin" /\ d.v < -1000)
        IN  /\ hmc_info.is_divergent = (above \/ below)
            /\ above => (hmc_info.is_accepted /\ hmc_info.is_divergent)

\* an accepted step with a finite delta_energy above the threshold
C5_Witness ==
    /\ hmc_last.valid
    /\ hmc_last.delta_energy.k = "fin"
    /\ hmc_last.delta_energy.v > 1000
    /\ hmc_info.is_accepted
    /\ hmc_info.is_divergent

\* C6: the acceptance probability is min(1, exp(delta_energy)) and lies in
\* [0, 1]: 1 for a positive delta_energy, 0 for -infinity.
C6_AcceptanceProbability ==
    hmc_last.valid =>
        LET d == hmc_last.delta_energy
            p == hmc_info.acceptance_probability
            e == Exp(d)
        IN  /\ p.k = "fin"
            /\ 0 <= p.v /\ p.v <= 1000
            /\ p = IF FLt(e, One) THEN e ELSE One
            /\ (d.k = "pinf" \/ (d.k = "fin" /\ d.v > 0)) => p = One
            /\ d.k = "ninf" => p = Fin(0)

\* a step with a positive delta_energy, where exp is above 1 and clamped
C6_Witness ==
    /\ hmc_last.valid
    /\ hmc_last.delta_energy.k = "fin"
    /\ hmc_last.delta_energy.v > 0
    /\ hmc_info.acceptance_probability = One

\* C10: the info of every HMC step reports the state built from the
\* integrator's output, p_accept and the Bernoulli draw, and the returned
\* state equals info.proposed_state exactly when the step is accepted.
C10_InfoReportsProposal ==
    hmc_last.valid =>
        /\ hmc_info.proposed_state.position = hmc_last.out.position
        /\ hmc_info.proposed_state.log_prob = hmc_last.out.log_prob
        /\ hmc_info.proposed_state.log_prob_grad = hmc_last.out.log_prob_grad
        /\ hmc_info.acceptance_probability = hmc_last.p_accept
        /\ hmc_info.is_accepted = hmc_last.do_accept
        /\ (hmc_state = hmc_info.proposed_state) <=> hmc_info.is_accepted

(***************************************************************************)
(* Properties of rwm_kernel                                                *)
(***************************************************************************)

\* C7: the RWM kernel accepts iff log(u) < candidate_log_prob - log_prob
\* with candidate = position + move; it returns the candidate with the
\* candidate's log_prob when it accepts and the current state otherwise.
C7_RWMSelectsWholeState ==
    rwm_last.valid =>
        LET l == rwm_last
            accept == FLt(l.log_uniform, FSub(l.proposal_log_prob, l.input.log_prob))
        IN  /\ l.proposal = FAdd(l.input.position, l.move_proposal)
            /\ l.proposal_log_prob = logpdf(target, l.proposal)
            /\ rwm_state = IF accept
                           THEN RWMState(l.proposal, l.proposal_log_prob)
                           ELSE l.input

\* an accepted move to a position with another log_prob
C7_Witness ==
    /\ rwm_last.valid
    /\ rwm_last.do_accept
    /\ rwm_state.position # rwm_last.input.position
    /\ rwm_state.log_prob # rwm_last.input.log_prob
    /\ IsFin(rwm_last.input.log_prob)

\* C8: a candidate whose log-density is -infinity is rejected for every
\* uniform draw and every current log_prob, and the state is returned
\* unchanged.
C8_OutOfSupportRejected ==
    (rwm_last.valid /\ rwm_last.proposal_log_prob = NInf) =>
        /\ ~rwm_last.do_accept
        /\ rwm_state = rwm_last.input

\* an out-of-support candidate proposed from an out-of-support state (the
\* ratio is NaN) with the uniform draw 0 (log_uniform is -infinity)
C8_Witness ==
    /\ rwm_last.valid
    /\ rwm_last.proposal_log_prob = NInf
    /\ rwm_last.input.log_prob = NInf
    /\ rwm_last.log_uniform = NInf
    /\ rwm_state = rwm_last.input

\* C9: the log_prob of the RWM state is the target log-density at its
\* position after any number of steps.
C9_RWMLogProbAtPosition ==
    rwm_state.log_prob = logpdf(target, rwm_state.position)

\* a rejected step whose candidate had another log_prob
C9_Witness ==
    /\ rwm_last.valid
    /\ ~rwm_last.do_accept
    /\ rwm_last.proposal_log_prob # rwm_last.input.log_prob
    /\ IsFin(rwm_last.proposal_log_prob)

====
